---- MODULE Spec2Model ----
(***************************************************************************)
(* The simulation engine of src/wow.py: the coloured, toroidal Game of     *)
(* Life (class GameOfLife), the handlers of GameOfLifeVisualizer that      *)
(* drive it (animate, paint_cell, clear_grid, the pattern loaders), and    *)
(* the two per-cell rule functions.                                        *)
(*                                                                         *)
(* Numbers in [0,1) and probabilities are kept in hundredths: 0.6 is 60.   *)
(* A call of np.random.random() is a value of DrawValues, a call of        *)
(* np.random.randint(1, 5) a value of RandInt; every call site draws its   *)
(* own value.                                                              *)
(***************************************************************************)
EXTENDS Integers, Sequences, FiniteSets, TLC

VARIABLES
    grid,               \* GameOfLife.grid: grid[y][x], rows 0..height-1
    width,              \* GameOfLife.width
    height,             \* GameOfLife.height
    max_width,          \* GameOfLife.max_width
    max_height,         \* GameOfLife.max_height
    active_bounds,      \* GameOfLife.active_bounds: <<min_x, max_x, min_y, max_y>>
    chaos_mode,         \* GameOfLife.chaos_mode
    chaos_probability,  \* GameOfLife.chaos_probability (hundredths)
    rule_randomness,    \* GameOfLife.rule_randomness (hundredths)
    generation,         \* GameOfLifeVisualizer.generation
    arg_color,          \* rule harness: the current_color handed to a rule function
    arg_counts,         \* rule harness: the color_counts handed to a rule function
    rule_result,        \* rule harness: what the rule functions returned for them
    fractal_args        \* fractal harness: the arguments handed to a generator

vars == <<grid, width, height, max_width, max_height, active_bounds,
          chaos_mode, chaos_probability, rule_randomness, generation,
          arg_color, arg_counts, rule_result, fractal_args>>

engine_vars == <<grid, width, height, max_width, max_height, active_bounds,
                 chaos_mode, chaos_probability, rule_randomness, generation>>

harness_vars == <<arg_color, arg_counts, rule_result, fractal_args>>

(***************************************************************************)
(* Bounds of the model.                                                    *)
(***************************************************************************)
\* the grids of Spec hold at most this many cells
MaxCells == 3
\* the animation driver is followed for this many generations
MaxGen == 2
\* the pattern grids of SpecPatterns are at most this wide and high
MaxPatternDim == 6
\* expand_grid_if_needed is asked for targets up to this
MaxTarget == 4
\* a value that is no cell state, held by the patterns of SpecRaw
MaxRawValue == 5
\* the grids of SpecChaos hold at most this many cells
MaxChaosCells == 2
\* the generators are handed max_iter and threshold up to this
\* SpecEdge: the widest and the highest grid
MaxEdgeWidth == 9
MaxEdgeHeight == 5
\* SpecRefresh: the longest side of a grid
MaxRefreshDim == 7
\* SpecEquiv: the most living cells of a loaded grid
MaxLiving == 5
\* SpecEmpty: the longest side of an empty grid
MaxEmptyDim == 4
MaxIter == 3
\* the grids of SpecNeighbors hold at most this many cells
MaxNeighborCells == 4
\* the one-row grids of SpecStrip are at most this wide
MaxStripWidth == 7

(***************************************************************************)
(* Program constants.                                                      *)
(***************************************************************************)
Dead == 0
Red == 1
Yellow == 4
Colors == Red..Yellow
CellStates == Dead..Yellow
bounds_margin == 5
\* the 8 Moore offsets: the most neighbours a cell can have
MaxNeighbors == 8
\* 0.6: overcrowding death in apply_custom_color_rules
OvercrowdChance == 60
\* 0.4 and 0.7: the two thresholds of rand_outcome for a living cell
RandomDeathBelow == 40
RandomSurviveBelow == 70
\* 0.1: spontaneous birth of a dead cell
RandomBirthBelow == 10
\* GameOfLifeVisualizer.brush_size and the margin of paint_cell
brush_size == 1
PaintMargin == 10
\* np.uint8 holds 0..255
Uint8Modulus == 256
\* the defaults of GameOfLife.__init__
DefaultChaosProbability == 30
DefaultRuleRandomness == 10
DefaultMaxSize == 500
\* a blinker needs a 5 x 5 grid, a block off the border a 4 x 4 grid
MinPatternDim == 4

\* values np.random.random() returns, in hundredths: one in every interval
\* the thresholds and probabilities of the program cut [0,1) into
DrawValues == {0, 5, 10, 20, 30, 40, 50, 60, 70, 80, 99}
\* np.random.randint(1, 5)
RandInt == Colors

Min(a, b) == IF a < b THEN a ELSE b
Max(a, b) == IF a > b THEN a ELSE b

Rows(h) == 0..(h - 1)
Cols(w) == 0..(w - 1)

\* np.zeros((h, w), dtype=np.uint8)
Zeros(w, h) == [y \in Rows(h) |-> [x \in Cols(w) |-> Dead]]

\* every h x w array with cells in vals
GridsOf(w, h, vals) == [Rows(h) -> [Cols(w) -> vals]]

\* numpy's index i on an axis of length n: a negative index counts from the end
NumpyIndex(i, n) == IF i < 0 THEN i + n ELSE i

(***************************************************************************)
(* GameOfLife: neighbour tallies and the dominant colour.                  *)
(***************************************************************************)
\* the offsets (dx, dy) get_neighbors_by_color visits
Offsets == {<<dx, dy>> \in {-1, 0, 1} \X {-1, 0, 1} : ~(dx = 0 /\ dy = 0)}

\* self.grid[ny, nx] for the offset o of (x, y), coordinates wrapped
NeighborColor(g, w, h, x, y, o) == g[(y + o[2]) % h][(x + o[1]) % w]

\* color_counts[neighbor_color] += 1 raises KeyError for a colour outside 1..4
NeighborsRaise(g, w, h, x, y) ==
    \E o \in Offsets : NeighborColor(g, w, h, x, y, o) \notin CellStates

\* get_neighbors_by_color visiting the offset (0, 0) as well
get_neighbors_by_color_self(g, w, h, x, y) ==
    [c \in Colors |->
        Cardinality({o \in {-1, 0, 1} \X {-1, 0, 1} : g[(y + o[2]) % h][(x + o[1]) % w] = c})]

\* color_counts of get_neighbors_by_color
get_neighbors_by_color(g, w, h, x, y) ==
    [c \in Colors |->
        Cardinality({o \in Offsets : NeighborColor(g, w, h, x, y, o) = c})]

\* sum(color_counts.values())
TotalOf(counts) == counts[1] + counts[2] + counts[3] + counts[4]

\* max(color_counts.values())
MaxCountOf(counts) == Max(Max(counts[1], counts[2]), Max(counts[3], counts[4]))

\* get_dominant_color with the default returned whatever the counts
get_dominant_color_default(counts) == Red

\* get_dominant_color returning the first key that holds the smallest count
get_dominant_color_least(counts) ==
    IF TotalOf(counts) = 0 THEN Red
    ELSE CHOOSE k \in Colors :
            /\ \A j \in Colors : counts[k] <= counts[j]
            /\ \A j \in Colors : j < k => counts[j] > counts[k]

\* get_dominant_color returning the last key that holds the largest count
get_dominant_color_last(counts) ==
    IF TotalOf(counts) = 0 THEN Red
    ELSE CHOOSE k \in Colors :
            /\ counts[k] = MaxCountOf(counts)
            /\ \A j \in Colors : j > k => counts[j] < counts[k]

\* max(color_counts.keys(), key=...) returns the first key, in the order
\* 1, 2, 3, 4 of the dict, that holds the largest count
get_dominant_color(counts) ==
    IF TotalOf(counts) = 0 THEN Red
    ELSE CHOOSE k \in Colors :
            /\ counts[k] = MaxCountOf(counts)
            /\ \A j \in Colors : j < k => counts[j] < counts[k]

(***************************************************************************)
(* GameOfLife: the rule functions.                                         *)
(***************************************************************************)
\* apply_original_conway_rules with every cell born Red
apply_original_conway_rules_red(cur, total, dominant) ==
    IF cur > 0
    THEN IF total \in {2, 3} THEN cur ELSE Dead
    ELSE IF total = 3 THEN Red ELSE Dead

\* apply_original_conway_rules with survival on 3 neighbours only
apply_original_conway_rules_three(cur, total, dominant) ==
    IF cur > 0
    THEN IF total = 3 THEN cur ELSE Dead
    ELSE IF total = 3 THEN dominant ELSE Dead

apply_original_conway_rules(cur, total, dominant) ==
    IF cur > 0
    THEN IF total \in {2, 3} THEN cur ELSE Dead
    ELSE IF total = 3
         THEN (IF dominant > 0 THEN dominant ELSE Red)
         ELSE Dead

\* apply_custom_color_rules with the overcrowding draw made for every
\* living cell
apply_custom_color_rules_stress(cur, counts, total, dominant, u) ==
    IF cur > 0
    THEN IF u < OvercrowdChance THEN Dead
         ELSE IF total \in {2, 3} THEN cur
         ELSE IF total >= 4 /\ MaxCountOf(counts) >= 3 THEN dominant
         ELSE IF total = 1 /\ counts[cur] = 1 THEN cur
         ELSE Dead
    ELSE IF total = 3 THEN dominant ELSE Dead

\* apply_custom_color_rules with survival on 2 neighbours only
apply_custom_color_rules_two(cur, counts, total, dominant, u) ==
    IF cur > 0
    THEN IF total >= 5 /\ u < OvercrowdChance THEN Dead
         ELSE IF total = 2 THEN cur
         ELSE IF total >= 4 /\ MaxCountOf(counts) >= 3 THEN dominant
         ELSE IF total = 1 /\ counts[cur] = 1 THEN cur
         ELSE Dead
    ELSE IF total = 3 THEN dominant ELSE Dead

\* apply_custom_color_rules without custom rule 2: a living cell with one
\* neighbour dies
apply_custom_color_rules_lonely(cur, counts, total, dominant, u) ==
    IF cur > 0
    THEN IF total >= 5 /\ u < OvercrowdChance THEN Dead
         ELSE IF total \in {2, 3} THEN cur
         ELSE IF total >= 4 /\ MaxCountOf(counts) >= 3 THEN dominant
         ELSE Dead
    ELSE IF total = 3 THEN dominant ELSE Dead

\* u is what np.random.random() returns at the overcrowding test; the draw
\* is made only for a living cell with 5 or more neighbours
apply_custom_color_rules(cur, counts, total, dominant, u) ==
    IF cur > 0
    THEN IF total >= 5 /\ u < OvercrowdChance THEN Dead
         ELSE IF total \in {2, 3} THEN cur
         ELSE IF total >= 4
              THEN (IF MaxCountOf(counts) >= 3
                    THEN (IF dominant > 0 THEN dominant ELSE cur)
                    ELSE Dead)
         ELSE IF total = 1
              THEN (IF (IF cur \in Colors THEN counts[cur] ELSE 0) = 1
                    THEN cur ELSE Dead)
         ELSE Dead
    ELSE IF total = 3
         THEN (IF dominant > 0 THEN dominant ELSE Red)
         ELSE Dead

\* every value apply_custom_color_rules can return, over the draw
CustomResults(cur, counts, total, dominant) ==
    {apply_custom_color_rules(cur, counts, total, dominant, u) : u \in DrawValues}

\* the random outcome with no change of colour for a living cell
RandomOutcomeResults_keep(cur) ==
    IF cur > 0 THEN {Dead, cur}
    ELSE UNION {IF u < RandomBirthBelow THEN RandInt ELSE {Dead} : u \in DrawValues}

\* the "completely random outcome" branch of update
RandomOutcomeResults(cur) ==
    IF cur > 0
    THEN UNION {IF rand_outcome < RandomDeathBelow THEN {Dead}
                ELSE IF rand_outcome < RandomSurviveBelow THEN {cur}
                ELSE RandInt : rand_outcome \in DrawValues}
    ELSE UNION {IF u < RandomBirthBelow THEN RandInt ELSE {Dead} : u \in DrawValues}

\* RuleChoice with the draw against chaos_probability tested first
RuleChoice_custom_first(cm, cp, rr, u1, u2) ==
    IF cm
    THEN IF u2 < cp THEN "custom"
         ELSE IF u1 < rr THEN "random"
         ELSE "original"
    ELSE "custom"

\* which rule set update's loop picks for a cell: u1 is the draw compared
\* with rule_randomness, u2 the draw compared with chaos_probability
RuleChoice(cm, cp, rr, u1, u2) ==
    IF cm
    THEN IF u1 < rr THEN "random"
         ELSE IF u2 < cp THEN "custom"
         ELSE "original"
    ELSE "custom"

\* the rule sets the draws can pick
RuleChoices(cm, cp, rr) ==
    {RuleChoice(cm, cp, rr, u1, u2) : u1 \in DrawValues, u2 \in DrawValues}

\* every value the picked rule set can give the cell
RuleResults(rule, cur, counts) ==
    LET total == TotalOf(counts)
        dominant == get_dominant_color(counts)
    IN  CASE rule = "random" -> RandomOutcomeResults(cur)
          [] rule = "custom" -> CustomResults(cur, counts, total, dominant)
          [] OTHER -> {apply_original_conway_rules(cur, total, dominant)}

\* the body of update's loop for one cell: every value new_grid[y, x] can get
UpdateCellResults(cur, counts, cm, cp, rr) ==
    UNION {RuleResults(rule, cur, counts) : rule \in RuleChoices(cm, cp, rr)}

(***************************************************************************)
(* GameOfLife: the active bounds.                                          *)
(***************************************************************************)
RECURSIVE SumCells(_, _, _, _)
\* np.sum over the first n cells of g in row-major order
SumCells(g, w, h, n) ==
    IF n = 0 THEN 0
    ELSE SumCells(g, w, h, n - 1) + g[(n - 1) \div w][(n - 1) % w]

\* np.sum(self.grid)
GridSum(g, w, h) == SumCells(g, w, h, w * h)

\* np.where(self.grid > 0), as <<y, x>> pairs
AliveCells(g, w, h) == {c \in Rows(h) \X Cols(w) : g[c[1]][c[2]] > 0}

SetMin(S) == CHOOSE a \in S : \A b \in S : a <= b
SetMax(S) == CHOOSE a \in S : \A b \in S : a >= b

\* the whole grid taken as the box of the empty grid
CenterBounds_whole(w, h) == <<0, w, 0, h>>

\* the centred box of the empty grid
CenterBounds(w, h) ==
    <<(w \div 2) - 1, (w \div 2) + 1, (h \div 2) - 1, (h \div 2) + 1>>

\* update_active_bounds with no margin around the living cells
update_active_bounds_tight(g, w, h, old) ==
    IF GridSum(g, w, h) = 0 THEN CenterBounds(w, h)
    ELSE LET alive == AliveCells(g, w, h) IN
         <<SetMin({c[2] : c \in alive}), SetMax({c[2] : c \in alive}) + 1,
           SetMin({c[1] : c \in alive}), SetMax({c[1] : c \in alive}) + 1>>

\* update_active_bounds taking the whole grid as the rectangle
update_active_bounds_full(g, w, h, old) == <<0, w, 0, h>>

\* update_active_bounds keeping the stored rectangle of a grid with no
\* living cell
update_active_bounds_stale(g, w, h, old) ==
    IF AliveCells(g, w, h) = {} THEN old
    ELSE LET alive == AliveCells(g, w, h) IN
         <<Max(0, SetMin({c[2] : c \in alive}) - bounds_margin),
           Min(w, SetMax({c[2] : c \in alive}) + bounds_margin + 1),
           Max(0, SetMin({c[1] : c \in alive}) - bounds_margin),
           Min(h, SetMax({c[1] : c \in alive}) + bounds_margin + 1)>>

\* update_active_bounds computing a rectangle for the empty grid only
update_active_bounds_lazy(g, w, h, old) ==
    IF GridSum(g, w, h) = 0 THEN CenterBounds(w, h) ELSE old

\* update_active_bounds leaving the rectangle as it was
update_active_bounds_keep(g, w, h, old) == old

\* the value of self.active_bounds after update_active_bounds; old is its
\* value before
update_active_bounds(g, w, h, old) ==
    IF GridSum(g, w, h) = 0 THEN CenterBounds(w, h)
    ELSE LET alive == AliveCells(g, w, h) IN
         IF alive = {} THEN old
         ELSE LET min_y == SetMin({c[1] : c \in alive})
                  max_y == SetMax({c[1] : c \in alive})
                  min_x == SetMin({c[2] : c \in alive})
                  max_x == SetMax({c[2] : c \in alive})
              IN  <<Max(0, min_x - bounds_margin),
                    Min(w, max_x + bounds_margin + 1),
                    Max(0, min_y - bounds_margin),
                    Min(h, max_y + bounds_margin + 1)>>

(***************************************************************************)
(* GameOfLife.update.                                                      *)
(***************************************************************************)
\* the cells update scans, in scan order: cell i of the rectangle b
ScanX(b, i) == b[1] + (i % (b[2] - b[1]))
ScanY(b, i) == b[3] + (i \div (b[2] - b[1]))
ScanCount(b) ==
    IF b[2] - b[1] <= 0 \/ b[4] - b[3] <= 0 THEN 0
    ELSE (b[2] - b[1]) * (b[4] - b[3])

\* get_neighbors_by_color raises KeyError somewhere in the scan
UpdateRaises(g, w, h, b) ==
    \E i \in 0..(ScanCount(b) - 1) : NeighborsRaise(g, w, h, ScanX(b, i), ScanY(b, i))

\* what new_grid[y, x] can get for cell i of the scan; everything is read
\* from self.grid, the grid of the previous generation
ScanCellResults(g, w, h, b, i, cm, cp, rr) ==
    LET x == ScanX(b, i)
        y == ScanY(b, i)
    IN  UpdateCellResults(g[NumpyIndex(y, h)][NumpyIndex(x, w)],
                          get_neighbors_by_color(g, w, h, x, y), cm, cp, rr)

RECURSIVE ScanGrids_inplace(_, _, _, _, _, _, _, _)
\* the scan writing into the grid it reads from: a cell sees the cells
\* rewritten before it in the same step
ScanGrids_inplace(g, w, h, b, n, cm, cp, rr) ==
    IF n = 0 THEN {g}
    ELSE UNION {{[ng EXCEPT ![NumpyIndex(ScanY(b, n - 1), h)][NumpyIndex(ScanX(b, n - 1), w)] = v] :
                    v \in ScanCellResults(ng, w, h, b, n - 1, cm, cp, rr)} :
                ng \in ScanGrids_inplace(g, w, h, b, n - 1, cm, cp, rr)}

RECURSIVE ScanGrids(_, _, _, _, _, _, _, _)
\* every new_grid the loop can have built after the first n cells of the scan
ScanGrids(g, w, h, b, n, cm, cp, rr) ==
    IF n = 0 THEN {g}
    ELSE {[ng EXCEPT ![NumpyIndex(ScanY(b, n - 1), h)][NumpyIndex(ScanX(b, n - 1), w)] = v] :
             ng \in ScanGrids(g, w, h, b, n - 1, cm, cp, rr),
             v \in ScanCellResults(g, w, h, b, n - 1, cm, cp, rr)}

\* update scanning every cell of the grid, whatever the rectangle is
UpdateGrids_whole(g, w, h, b, cm, cp, rr) ==
    ScanGrids(g, w, h, <<0, w, 0, h>>, w * h, cm, cp, rr)

\* every grid the two loops of update would build were they to run over
\* range(height) and range(width)
FullScanGrids(g, w, h, cm, cp, rr) ==
    ScanGrids(g, w, h, <<0, w, 0, h>>, w * h, cm, cp, rr)

\* every grid update can leave in self.grid, b being the refreshed bounds
UpdateGrids(g, w, h, b, cm, cp, rr) ==
    ScanGrids(g, w, h, b, ScanCount(b), cm, cp, rr)

(***************************************************************************)
(* GameOfLife.expand_grid_if_needed.                                       *)
(***************************************************************************)
\* a slice bound i on an axis of length n, as Python normalises it
SliceBound(i, n) ==
    LET j == IF i < 0 THEN i + n ELSE i
    IN  IF j < 0 THEN 0 ELSE IF j > n THEN n ELSE j

SliceLen(start, stop, n) == Max(0, SliceBound(stop, n) - SliceBound(start, n))

\* expand_grid_if_needed copying the old grid to the top left corner
expand_grid_if_needed_corner(g, w, h, mw, mh, b, target_width, target_height) ==
    LET new_width == Min(Max(w, target_width), mw)
        new_height == Min(Max(h, target_height), mh)
        unchanged == [grid |-> g, width |-> w, height |-> h, active_bounds |-> b]
    IN  IF new_width # w \/ new_height # h
        THEN IF new_width >= w /\ new_height >= h
             THEN [ret |-> "True",
                   grid |-> [y \in Rows(new_height) |-> [x \in Cols(new_width) |->
                                IF y < h /\ x < w THEN g[y][x] ELSE Dead]],
                   width |-> new_width, height |-> new_height, active_bounds |-> b]
             ELSE [ret |-> "raise"] @@ unchanged
        ELSE [ret |-> "False"] @@ unchanged

\* expand_grid_if_needed leaving the rectangle where it was
expand_grid_if_needed_unshifted(g, w, h, mw, mh, b, target_width, target_height) ==
    LET new_width == Min(Max(w, target_width), mw)
        new_height == Min(Max(h, target_height), mh)
        offset_y == (new_height - h) \div 2
        offset_x == (new_width - w) \div 2
        unchanged == [grid |-> g, width |-> w, height |-> h, active_bounds |-> b]
    IN  IF new_width # w \/ new_height # h
        THEN LET y0 == SliceBound(offset_y, new_height)
                 x0 == SliceBound(offset_x, new_width)
                 rows == SliceLen(offset_y, offset_y + h, new_height)
                 cols == SliceLen(offset_x, offset_x + w, new_width)
                 fits == /\ new_width >= 0 /\ new_height >= 0
                         /\ (rows = h \/ h = 1)
                         /\ (cols = w \/ w = 1)
                 new_grid ==
                     [y \in Rows(new_height) |-> [x \in Cols(new_width) |->
                         IF y >= y0 /\ y < y0 + rows /\ x >= x0 /\ x < x0 + cols
                         THEN g[IF h = 1 THEN 0 ELSE y - y0][IF w = 1 THEN 0 ELSE x - x0]
                         ELSE Dead]]
             IN  IF fits
                 THEN [ret |-> "True", grid |-> new_grid, width |-> new_width,
                       height |-> new_height,
                       active_bounds |-> b]
                 ELSE [ret |-> "raise"] @@ unchanged
        ELSE [ret |-> "False"] @@ unchanged

\* ret is what the call returns ("raise": it raised ValueError and changed
\* nothing); the other fields are the engine's fields after the call
expand_grid_if_needed(g, w, h, mw, mh, b, target_width, target_height) ==
    LET new_width == Min(Max(w, target_width), mw)
        new_height == Min(Max(h, target_height), mh)
        offset_y == (new_height - h) \div 2
        offset_x == (new_width - w) \div 2
        unchanged == [grid |-> g, width |-> w, height |-> h, active_bounds |-> b]
    IN  IF new_width # w \/ new_height # h
        THEN LET y0 == SliceBound(offset_y, new_height)
                 x0 == SliceBound(offset_x, new_width)
                 rows == SliceLen(offset_y, offset_y + h, new_height)
                 cols == SliceLen(offset_x, offset_x + w, new_width)
                 fits == /\ new_width >= 0 /\ new_height >= 0
                         /\ (rows = h \/ h = 1)
                         /\ (cols = w \/ w = 1)
                 new_grid ==
                     [y \in Rows(new_height) |-> [x \in Cols(new_width) |->
                         IF y >= y0 /\ y < y0 + rows /\ x >= x0 /\ x < x0 + cols
                         THEN g[IF h = 1 THEN 0 ELSE y - y0][IF w = 1 THEN 0 ELSE x - x0]
                         ELSE Dead]]
             IN  IF fits
                 THEN [ret |-> "True", grid |-> new_grid, width |-> new_width,
                       height |-> new_height,
                       active_bounds |-> <<b[1] + offset_x, b[2] + offset_x,
                                           b[3] + offset_y, b[4] + offset_y>>]
                 ELSE [ret |-> "raise"] @@ unchanged
        ELSE [ret |-> "False"] @@ unchanged

(***************************************************************************)
(* set_grid, clear and paint_cell.                                         *)
(***************************************************************************)
\* new_grid.astype(np.uint8)
AsUint8(pattern) ==
    [y \in DOMAIN pattern |-> [x \in DOMAIN pattern[y] |-> pattern[y][x] % Uint8Modulus]]

\* the cells (dx, dy) of the brush of paint_cell
BrushCells ==
    {d \in ((1 - brush_size)..(brush_size - 1)) \X ((1 - brush_size)..(brush_size - 1)) :
        d[1] * d[1] + d[2] * d[2] < brush_size * brush_size}

\* the grid after the brush loop of paint_cell wrote value around (cx, cy)
Brushed(g, w, h, cx, cy, value) ==
    [y \in Rows(h) |-> [x \in Cols(w) |->
        IF \E d \in BrushCells : x = cx + d[1] /\ y = cy + d[2]
        THEN value ELSE g[y][x]]]

\* the fields set_grid(pattern) sets; old is active_bounds before the call
set_grid(pattern, old) ==
    LET g == AsUint8(pattern)
        h == Cardinality(DOMAIN pattern)
        w == Cardinality(DOMAIN pattern[0])
    IN  [grid |-> g, width |-> w, height |-> h,
         active_bounds |-> update_active_bounds(g, w, h, old)]

\* the fields after paint_cell at the rounded mouse position (cx, cy) with
\* auto_expand on; value is current_color in paint mode and 0 in erase mode.
\* A ValueError of expand_grid_if_needed leaves paint_cell before the brush.
paint_cell(g, w, h, mw, mh, b, cx, cy, value) ==
    LET e == expand_grid_if_needed(g, w, h, mw, mh, b,
                                   Max(cx + brush_size + PaintMargin, w),
                                   Max(cy + brush_size + PaintMargin, h))
    IN  IF e.ret = "raise" THEN e
        ELSE [e EXCEPT !.grid = Brushed(e.grid, e.width, e.height, cx, cy, value)]

\* every grid update() can leave from the grid g: the bounds are refreshed,
\* then the rectangle is scanned
StepGrids(g, w, h, old, cm, cp, rr) ==
    UpdateGrids(g, w, h, update_active_bounds(g, w, h, old), cm, cp, rr)

(***************************************************************************)
(* scrips3.py: the GameOfLife of the earlier script, which scans the whole *)
(* grid and has neither chaos nor active bounds.                           *)
(***************************************************************************)
\* color_counts of scrips3's get_neighbors_by_color
scrips3_get_neighbors_by_color(g, w, h, x, y) ==
    [c \in Colors |->
        Cardinality({o \in Offsets : g[(y + o[2]) % h][(x + o[1]) % w] = c})]

\* scrips3's get_dominant_color: the first key holding the largest count
scrips3_get_dominant_color(counts) ==
    IF counts[1] + counts[2] + counts[3] + counts[4] = 0 THEN 1
    ELSE CHOOSE k \in 1..4 :
            /\ \A j \in 1..4 : counts[j] <= counts[k]
            /\ \A j \in 1..4 : j < k => counts[j] < counts[k]

\* new_grid[y, x] of scrips3's update for a cell of colour current_color;
\* a cell no branch assigns keeps the 0 of np.zeros_like
scrips3_cell(current_color, color_counts) ==
    LET total_neighbors ==
            color_counts[1] + color_counts[2] + color_counts[3] + color_counts[4]
    IN  IF current_color > 0
        THEN IF total_neighbors \in {2, 3} THEN current_color
             ELSE IF total_neighbors >= 4
             THEN IF \E k \in 1..4 : color_counts[k] >= 3
                  THEN scrips3_get_dominant_color(color_counts)
                  ELSE 0
             ELSE IF total_neighbors = 1
             THEN IF color_counts[current_color] = 1 THEN current_color ELSE 0
             ELSE 0
        ELSE IF total_neighbors = 3
             THEN scrips3_get_dominant_color(color_counts)
             ELSE 0

\* scrips3's update starting new_grid as a copy of the grid
scrips3_update_copy(g, w, h) ==
    [y \in Rows(h) |-> [x \in Cols(w) |->
        LET v == scrips3_cell(g[y][x], scrips3_get_neighbors_by_color(g, w, h, x, y))
        IN  IF v = 0 THEN g[y][x] ELSE v]]

\* self.grid after scrips3's update
scrips3_update(g, w, h) ==
    [y \in Rows(h) |-> [x \in Cols(w) |->
        scrips3_cell(g[y][x], scrips3_get_neighbors_by_color(g, w, h, x, y))]]

(***************************************************************************)
(* MandelbrotGenerator. A complex number is <<re, im, den>>, standing for  *)
(* (re + im i) / den; the numbers met are dyadic and small, so that the    *)
(* floating point arithmetic of the program is exact on them.              *)
(***************************************************************************)
\* abs(z) > 2
AbsAbove2(z) == z[1] * z[1] + z[2] * z[2] > 4 * z[3] * z[3]

\* z*z + c
SquarePlus(z, c) ==
    <<(z[1] * z[1] - z[2] * z[2]) * c[3] + c[1] * z[3] * z[3],
      2 * z[1] * z[2] * c[3] + c[2] * z[3] * z[3],
      z[3] * z[3] * c[3]>>

\* lo + (i / n) * (hi - lo), in halves: n is 1 or 2
PixelHalves(i, n, b) == 2 * b[1] + ((2 * i) \div n) * (b[2] - b[1])

\* complex(real, imag) for the pixel (x, y)
PixelPoint(x, y, a) ==
    <<PixelHalves(x, a.width, a.x), PixelHalves(y, a.height, a.y), 2>>

RECURSIVE MandelbrotLoop(_, _, _, _)
\* the for loop of mandelbrot_iteration from its step n on
MandelbrotLoop(z, c, n, max_iter) ==
    IF n = max_iter THEN max_iter
    ELSE IF AbsAbove2(z) THEN n
    ELSE MandelbrotLoop(SquarePlus(z, c), c, n + 1, max_iter)

mandelbrot_iteration(c, max_iter) == MandelbrotLoop(<<0, 0, 1>>, c, 0, max_iter)

RECURSIVE JuliaLoop(_, _, _, _)
\* the while loop of generate_julia_set; abs(z) has no effect, so the test
\* of the count is made first
JuliaLoop(z, c, iterations, max_iter) ==
    IF iterations < max_iter /\ ~AbsAbove2(z)
    THEN JuliaLoop(SquarePlus(z, c), c, iterations + 1, max_iter)
    ELSE iterations

\* generate_mandelbrot_grid marking the points that escape late
generate_mandelbrot_grid_late(a) ==
    [y \in Rows(a.height) |-> [x \in Cols(a.width) |->
        IF mandelbrot_iteration(PixelPoint(x, y, a), a.max_iter) >= a.threshold
        THEN 1 ELSE 0]]

generate_mandelbrot_grid(a) ==
    [y \in Rows(a.height) |-> [x \in Cols(a.width) |->
        IF mandelbrot_iteration(PixelPoint(x, y, a), a.max_iter) < a.threshold
        THEN 1 ELSE 0]]

generate_julia_set(a) ==
    [y \in Rows(a.height) |-> [x \in Cols(a.width) |->
        IF JuliaLoop(PixelPoint(x, y, a), <<a.c[1], a.c[2], 1>>, 0, a.max_iter)
               < a.threshold
        THEN 1 ELSE 0]]

(***************************************************************************)
(* The inputs of the operations.                                           *)
(***************************************************************************)
\* the (width, height) and (max_width, max_height) pairs of Spec
SmallDims == {d \in (1..MaxCells) \X (1..MaxCells) : d[1] * d[2] <= MaxCells}

\* the cell values painted and loaded in Spec: one colour stands for all
\* four, the operations on the grid testing a cell only for being above 0
\* (the rules on colours are the matter of SpecChaos, SpecPatterns, SpecRules)
SmallValues == {Dead, Red}

\* the patterns handed to set_grid in Spec
SmallPatterns == UNION {GridsOf(d[1], d[2], SmallValues) : d \in SmallDims}

\* patterns that also hold a value that is no cell state
RawPatterns ==
    UNION {GridsOf(d[1], d[2], SmallValues \cup {MaxRawValue}) : d \in SmallDims}

\* the (width, height) pairs of SpecChaos, whose patterns hold every colour
ChaosDims == {d \in (1..MaxChaosCells) \X (1..MaxChaosCells) : d[1] * d[2] <= MaxChaosCells}

\* GameOfLifeVisualizer.chaos_levels, and the settings at the ends of [0,1]
chaos_levels == {<<FALSE, 0, 0>>, <<TRUE, 20, 5>>, <<TRUE, 50, 10>>, <<TRUE, 80, 20>>}
ChaosSettings ==
    chaos_levels \cup {<<TRUE, 0, 0>>, <<TRUE, 100, 0>>, <<TRUE, 0, 100>>, <<TRUE, 100, 100>>}

\* settings with a probability above 1 and one below 0
RawSettings == {<<TRUE, 150, 10>>, <<TRUE, 30, -50>>}

\* where the mouse can be: on the grid and just off it
PaintCoords == (-1)..(MaxCells - 1)

PatternDims == (MinPatternDim..MaxPatternDim) \X (MinPatternDim..MaxPatternDim)

\* a horizontal row of three cells of colour c centred on (x, y)
HBlinker(w, h, x, y, c) ==
    [yy \in Rows(h) |-> [xx \in Cols(w) |->
        IF yy = y /\ xx \in (x - 1)..(x + 1) THEN c ELSE Dead]]

\* a vertical column of three cells of colour c centred on (x, y)
VBlinker(w, h, x, y, c) ==
    [yy \in Rows(h) |-> [xx \in Cols(w) |->
        IF xx = x /\ yy \in (y - 1)..(y + 1) THEN c ELSE Dead]]

\* a 2 x 2 block of colour c with its top left cell at (x, y)
Block(w, h, x, y, c) ==
    [yy \in Rows(h) |-> [xx \in Cols(w) |->
        IF xx \in x..(x + 1) /\ yy \in y..(y + 1) THEN c ELSE Dead]]

\* the blinkers whose row touches no edge of the w x h grid
BlinkerPatterns(w, h) ==
    {HBlinker(w, h, x, y, c) : x \in 2..(w - 3), y \in 1..(h - 2), c \in Colors}

\* the blocks with no cell in a border row or column of the w x h grid
BlockPatterns(w, h) ==
    {Block(w, h, x, y, c) : x \in 1..(w - 3), y \in 1..(h - 3), c \in Colors}

\* the patterns handed to set_grid in SpecStrip: one-row grids of two
\* values, wide enough for the margin to end inside the grid, and every grid
\* of the five cell states on the dimensions of SpecChaos
StripPatterns ==
    UNION {GridsOf(w, 1, SmallValues) : w \in 1..MaxStripWidth}
        \cup UNION {GridsOf(d[1], d[2], CellStates) : d \in ChaosDims}

\* the widths of SpecFrame's one-row grids: the margin around a living cell
\* at one end stops short of the other end
FrameWidths == (bounds_margin + 2)..MaxStripWidth

\* the (width, height) pairs of SpecFrame's empty grids: the centred box
\* leaves one cell outside
FrameDims == {<<3, 1>>, <<1, 3>>}

\* a one-row grid of width w with one living cell of colour c at x
OneCell(w, x, c) == [y \in Rows(1) |-> [xx \in Cols(w) |-> IF xx = x THEN c ELSE Dead]]

FramePatterns ==
    UNION {{OneCell(w, x, c) : x \in Cols(w), c \in Colors} : w \in FrameWidths}

\* the (width, height) pairs of SpecEdge: wider than the rectangle around
\* a cell of column 0, and high enough for a column of three cells
EdgeDims == ((bounds_margin + 3)..MaxEdgeWidth) \X (3..MaxEdgeHeight)

\* the columns of three cells in column 0 that touch no edge row
EdgePatterns(w, h) == {VBlinker(w, h, 0, y, c) : y \in 1..(h - 2), c \in Colors}

\* the sides of SpecRefresh's grids, the longest wider than the margin
RefreshSides == {1, 2, MaxRefreshDim}

\* the ends and the middle of an axis of length n
AxisMarks(n) == {0, n \div 2, n - 1}

\* the w x h grid whose cells in the set cells, of <<y, x>> pairs, have colour c
Dotted(w, h, cells, c) ==
    [y \in Rows(h) |-> [x \in Cols(w) |-> IF <<y, x>> \in cells THEN c ELSE Dead]]

\* the w x h grids with no, one or two living cells at the ends and the
\* middle of the axes
RefreshPatterns(w, h) ==
    {Dotted(w, h, {p, q}, c) : p \in AxisMarks(h) \X AxisMarks(w),
                               q \in AxisMarks(h) \X AxisMarks(w),
                               c \in {Dead, Red, Yellow}}

\* the (width, height) pairs of SpecEquiv: a grid with 3 x 2 cells off the
\* border, and two grids longer than the active rectangle
EquivDims == {<<5, 4>>, <<9, 3>>, <<3, 9>>}

\* the cells of no border row or column
InnerCells(w, h) == (1..(h - 2)) \X (1..(w - 2))

\* the w x h grids of Dead, Red and Yellow cells with a Dead border and
\* at most MaxLiving living cells
EquivPatterns(w, h) ==
    {[y \in Rows(h) |-> [x \in Cols(w) |->
         IF <<y, x>> \in InnerCells(w, h) THEN f[<<y, x>>] ELSE Dead]] :
       f \in {f \in [InnerCells(w, h) -> {Dead, Red, Yellow}] :
                Cardinality({c \in InnerCells(w, h) : f[c] > 0}) <= MaxLiving}}

\* the settings of SpecColors: chaos off, and chaos on with no random
\* outcome and the custom rules never, always or half of the time
ColorSettings == {s \in ChaosSettings : s[3] = 0} \cup {<<TRUE, 50, 0>>}

\* the (width, height) pairs of SpecNeighbors
NeighborDims ==
    {d \in (1..MaxNeighborCells) \X (1..MaxNeighborCells) : d[1] * d[2] <= MaxNeighborCells}

\* every tally of the colours of 8 neighbours
Tallies == {t \in [Colors -> 0..MaxNeighbors] : TotalOf(t) <= MaxNeighbors}

\* every dict of four counts get_dominant_color can be handed
AllCounts == [Colors -> 0..MaxNeighbors]

NoResult == [rule |-> "none", value |-> Dead]

\* the widths and heights handed to the generators: x / width is exact
FractalDims == {1, 2}
\* the (x_min, x_max) and (y_min, y_max) pairs, and the (c_real, c_imag)
PlaneBounds == {<<-2, 2>>, <<0, 2>>, <<1, 3>>}
JuliaConstants == {<<-1, 0>>, <<0, 0>>, <<0, 1>>}

\* the arguments of generate_mandelbrot_grid and generate_julia_set
FractalArgs ==
    [width : FractalDims, height : FractalDims, x : PlaneBounds, y : PlaneBounds,
     c : JuliaConstants, max_iter : 0..MaxIter, threshold : 0..(MaxIter + 1)]

NoArgs ==
    [width |-> 1, height |-> 1, x |-> <<-2, 2>>, y |-> <<-2, 2>>, c |-> <<0, 0>>,
     max_iter |-> 0, threshold |-> 0]

(***************************************************************************)
(* Construction.                                                           *)
(***************************************************************************)
\* GameOfLife.__init__(w, h, mw, mh) and GameOfLifeVisualizer's generation
Construct(w, h, mw, mh) ==
    /\ width = w
    /\ height = h
    /\ max_width = mw
    /\ max_height = mh
    /\ grid = Zeros(w, h)
    /\ active_bounds = <<0, w, 0, h>>
    /\ chaos_mode = FALSE
    /\ chaos_probability = DefaultChaosProbability
    /\ rule_randomness = DefaultRuleRandomness
    /\ generation = 0

HarnessIdle ==
    /\ arg_color = Dead
    /\ arg_counts = [c \in Colors |-> 0]
    /\ rule_result = NoResult
    /\ fractal_args = NoArgs

Init ==
    /\ \E d \in SmallDims, m \in SmallDims : Construct(d[1], d[2], m[1], m[2])
    /\ HarnessIdle

\* game = GameOfLife(w, h, mw, mh); game.set_grid(pattern), the pattern
\* w wide and h high and the generation at 0
Loaded(w, h, mw, mh, pattern) ==
    LET s == set_grid(pattern, <<0, w, 0, h>>) IN
    /\ grid = s.grid
    /\ width = s.width
    /\ height = s.height
    /\ active_bounds = s.active_bounds
    /\ max_width = mw
    /\ max_height = mh
    /\ chaos_mode = FALSE
    /\ chaos_probability = DefaultChaosProbability
    /\ rule_randomness = DefaultRuleRandomness
    /\ generation = 0

\* the engine as constructed, or constructed and loaded with a pattern
InitChaos ==
    /\ \E d \in ChaosDims :
          \/ Construct(d[1], d[2], d[1], d[2])
          \/ \E pattern \in GridsOf(d[1], d[2], CellStates) :
                Loaded(d[1], d[2], d[1], d[2], pattern)
    /\ HarnessIdle

InitPatterns ==
    /\ \E d \in PatternDims :
          \E pattern \in BlinkerPatterns(d[1], d[2]) \cup BlockPatterns(d[1], d[2]) :
             Loaded(d[1], d[2], DefaultMaxSize, DefaultMaxSize, pattern)
    /\ HarnessIdle

InitRules ==
    /\ Construct(1, 1, 1, 1)
    /\ arg_color \in CellStates
    /\ arg_counts \in Tallies
    /\ rule_result = NoResult
    /\ fractal_args = NoArgs

\* the engine loaded with a pattern of the five cell states
InitNeighbors ==
    /\ \E d \in NeighborDims :
          \E pattern \in GridsOf(d[1], d[2], CellStates) :
             Loaded(d[1], d[2], d[1], d[2], pattern)
    /\ HarnessIdle

\* game = GameOfLife(w, h); game.set_grid(blinker);
\* game.set_chaos_mode(True, 0.0, 0.0): every cell follows the original rules
InitOriginalPath ==
    /\ \E d \in PatternDims :
          \E pattern \in BlinkerPatterns(d[1], d[2]) :
             LET s == set_grid(pattern, <<0, d[1], 0, d[2]>>) IN
             /\ grid = s.grid
             /\ width = s.width
             /\ height = s.height
             /\ active_bounds = s.active_bounds
    /\ max_width = DefaultMaxSize
    /\ max_height = DefaultMaxSize
    /\ chaos_mode = TRUE
    /\ chaos_probability = 0
    /\ rule_randomness = 0
    /\ generation = 0
    /\ HarnessIdle

\* the engine as constructed, and the arguments of a generator call
InitFractal ==
    /\ \E d \in ChaosDims : Construct(d[1], d[2], d[1], d[2])
    /\ arg_color = Dead
    /\ arg_counts = [c \in Colors |-> 0]
    /\ rule_result = NoResult
    /\ fractal_args \in FractalArgs

InitStrip ==
    /\ \E w \in 1..MaxStripWidth : Construct(w, 1, DefaultMaxSize, DefaultMaxSize)
    /\ HarnessIdle

\* game = GameOfLife(w, h) or game.set_grid(pattern), then
\* game.set_chaos_mode(*s): an empty grid of three cells under every setting, a one-row
\* grid with one living cell under the settings that draw no random outcome
InitFrame ==
    /\ \E s \in ChaosSettings :
          /\ chaos_mode = s[1]
          /\ chaos_probability = s[2]
          /\ rule_randomness = s[3]
          /\ \/ \E d \in FrameDims :
                   /\ grid = Zeros(d[1], d[2])
                   /\ width = d[1]
                   /\ height = d[2]
                   /\ active_bounds = <<0, d[1], 0, d[2]>>
             \/ /\ s[3] = 0
                /\ \E pattern \in FramePatterns :
                      LET g == set_grid(pattern, <<0, 1, 0, 1>>) IN
                      /\ grid = g.grid
                      /\ width = g.width
                      /\ height = g.height
                      /\ active_bounds = g.active_bounds
    /\ max_width = DefaultMaxSize
    /\ max_height = DefaultMaxSize
    /\ generation = 0
    /\ HarnessIdle

\* game = GameOfLife(w, h); game.set_grid(pattern), a column of three cells
\* in column 0, chaos off
InitEdge ==
    /\ \E d \in EdgeDims :
          \E pattern \in EdgePatterns(d[1], d[2]) :
             Loaded(d[1], d[2], DefaultMaxSize, DefaultMaxSize, pattern)
    /\ HarnessIdle

\* game = GameOfLife(w, h); game.set_grid(pattern), chaos off
InitRefresh ==
    /\ \E w \in RefreshSides, h \in RefreshSides :
          \E pattern \in RefreshPatterns(w, h) :
             Loaded(w, h, DefaultMaxSize, DefaultMaxSize, pattern)
    /\ HarnessIdle

\* game = GameOfLife(w, h); game.set_grid(pattern), chaos off
InitEquiv ==
    /\ \E d \in EquivDims :
          \E pattern \in EquivPatterns(d[1], d[2]) :
             Loaded(d[1], d[2], DefaultMaxSize, DefaultMaxSize, pattern)
    /\ HarnessIdle

\* game = GameOfLife(5, 4); game.set_grid(pattern); game.set_chaos_mode(*s)
InitColors ==
    /\ \E pattern \in EquivPatterns(5, 4) :
          LET g == set_grid(pattern, <<0, 5, 0, 4>>) IN
          /\ grid = g.grid
          /\ width = g.width
          /\ height = g.height
          /\ active_bounds = g.active_bounds
    /\ \E s \in ColorSettings :
          /\ chaos_mode = s[1]
          /\ chaos_probability = s[2]
          /\ rule_randomness = s[3]
    /\ max_width = DefaultMaxSize
    /\ max_height = DefaultMaxSize
    /\ generation = 0
    /\ HarnessIdle

\* game = GameOfLife(w, h); game.set_chaos_mode(*s)
InitEmpty ==
    /\ \E w \in 1..MaxEmptyDim, h \in 1..MaxEmptyDim :
          /\ grid = Zeros(w, h)
          /\ width = w
          /\ height = h
          /\ active_bounds = <<0, w, 0, h>>
    /\ \E s \in ChaosSettings :
          /\ chaos_mode = s[1]
          /\ chaos_probability = s[2]
          /\ rule_randomness = s[3]
    /\ max_width = DefaultMaxSize
    /\ max_height = DefaultMaxSize
    /\ generation = 0
    /\ HarnessIdle

InitDominant ==
    /\ Construct(1, 1, 1, 1)
    /\ arg_color = Dead
    /\ arg_counts \in AllCounts
    /\ rule_result = NoResult
    /\ fractal_args = NoArgs

(***************************************************************************)
(* The operations.                                                         *)
(***************************************************************************)
\* GameOfLife.update; count is whether the caller is animate, which counts
\* the generation after update returned. A KeyError of update leaves both
\* before self.grid is assigned and before the generation is counted.
UpdateBy(count) ==
    LET b == update_active_bounds(grid, width, height, active_bounds) IN
    /\ active_bounds' = b
    /\ IF UpdateRaises(grid, width, height, b)
       THEN UNCHANGED <<grid, generation>>
       ELSE /\ grid' \in UpdateGrids(grid, width, height, b, chaos_mode,
                                     chaos_probability, rule_randomness)
            /\ generation' = IF count THEN generation + 1 ELSE generation
    /\ UNCHANGED <<width, height, max_width, max_height, chaos_mode,
                   chaos_probability, rule_randomness, harness_vars>>

\* GameOfLife.update_active_bounds called on its own
UpdateActiveBounds ==
    /\ active_bounds' = update_active_bounds(grid, width, height, active_bounds)
    /\ UNCHANGED <<grid, width, height, max_width, max_height, chaos_mode,
                   chaos_probability, rule_randomness, generation, harness_vars>>

\* GameOfLife.update called by a driver that keeps no count
Update == UpdateBy(FALSE)

\* GameOfLifeVisualizer.animate with the game running
Animate ==
    /\ generation < MaxGen
    /\ UpdateBy(TRUE)

\* GameOfLife.set_grid(pattern)
SetGridTo(pattern) ==
    LET s == set_grid(pattern, active_bounds) IN
    /\ grid' = s.grid
    /\ height' = s.height
    /\ width' = s.width
    /\ active_bounds' = s.active_bounds
    /\ UNCHANGED <<max_width, max_height, chaos_mode, chaos_probability,
                   rule_randomness, generation, harness_vars>>

SetGrid == \E pattern \in SmallPatterns : SetGridTo(pattern)

SetGridRaw == \E pattern \in RawPatterns : SetGridTo(pattern)

SetGridStrip == \E pattern \in StripPatterns : SetGridTo(pattern)

\* clear with the rectangle set to the whole grid
clear_full(w, h) == [grid |-> Zeros(w, h), active_bounds |-> <<0, w, 0, h>>]

\* the fields clear() sets
clear(w, h) == [grid |-> Zeros(w, h), active_bounds |-> CenterBounds(w, h)]

\* GameOfLife.clear
Clear ==
    /\ grid' = clear(width, height).grid
    /\ active_bounds' = clear(width, height).active_bounds
    /\ UNCHANGED <<width, height, max_width, max_height, chaos_mode,
                   chaos_probability, rule_randomness, generation, harness_vars>>

Expand ==
    \E tw \in 0..MaxTarget, th \in 0..MaxTarget :
        LET e == expand_grid_if_needed(grid, width, height, max_width, max_height,
                                       active_bounds, tw, th)
        IN  /\ grid' = e.grid
            /\ width' = e.width
            /\ height' = e.height
            /\ active_bounds' = e.active_bounds
            /\ UNCHANGED <<max_width, max_height, chaos_mode, chaos_probability,
                           rule_randomness, generation, harness_vars>>

SetMaxSize ==
    \E m \in SmallDims :
        /\ max_width' = m[1]
        /\ max_height' = m[2]
        /\ UNCHANGED <<grid, width, height, active_bounds, chaos_mode,
                       chaos_probability, rule_randomness, generation, harness_vars>>

\* GameOfLife.set_chaos_mode(s[1], s[2], s[3])
SetChaosModeTo(s) ==
    /\ chaos_mode' = s[1]
    /\ chaos_probability' = s[2]
    /\ rule_randomness' = s[3]
    /\ UNCHANGED <<grid, width, height, max_width, max_height, active_bounds,
                   generation, harness_vars>>

SetChaosMode == \E s \in ChaosSettings : SetChaosModeTo(s)

SetChaosModeRaw == \E s \in RawSettings : SetChaosModeTo(s)

\* GameOfLifeVisualizer.paint_cell
PaintCell ==
    \E cx \in PaintCoords, cy \in PaintCoords, value \in SmallValues :
        LET p == paint_cell(grid, width, height, max_width, max_height,
                            active_bounds, cx, cy, value)
        IN  /\ grid' = p.grid
            /\ width' = p.width
            /\ height' = p.height
            /\ active_bounds' = p.active_bounds
            /\ UNCHANGED <<max_width, max_height, chaos_mode, chaos_probability,
                           rule_randomness, generation, harness_vars>>

\* the rule harness: apply_original_conway_rules on the drawn arguments
ApplyOriginal ==
    /\ rule_result' = [rule |-> "original",
                       value |-> apply_original_conway_rules(
                                     arg_color, TotalOf(arg_counts),
                                     get_dominant_color(arg_counts))]
    /\ UNCHANGED <<engine_vars, arg_color, arg_counts, fractal_args>>

\* the rule harness: apply_custom_color_rules on the drawn arguments, u
\* being what np.random.random() returns if it is called
ApplyCustom ==
    \E u \in DrawValues :
        /\ rule_result' = [rule |-> "custom",
                           value |-> apply_custom_color_rules(
                                         arg_color, arg_counts, TotalOf(arg_counts),
                                         get_dominant_color(arg_counts), u)]
        /\ UNCHANGED <<engine_vars, arg_color, arg_counts, fractal_args>>

\* the rule harness: get_dominant_color on the drawn counts
ApplyDominant ==
    /\ rule_result' = [rule |-> "dominant", value |-> get_dominant_color(arg_counts)]
    /\ UNCHANGED <<engine_vars, arg_color, arg_counts, fractal_args>>

\* the fractal harness: MandelbrotGenerator.generate_mandelbrot_grid
GenerateMandelbrot ==
    /\ rule_result' = [rule |-> "mandelbrot",
                       value |-> generate_mandelbrot_grid(fractal_args)]
    /\ UNCHANGED <<engine_vars, arg_color, arg_counts, fractal_args>>

\* the fractal harness: MandelbrotGenerator.generate_julia_set
GenerateJulia ==
    /\ rule_result' = [rule |-> "julia", value |-> generate_julia_set(fractal_args)]
    /\ UNCHANGED <<engine_vars, arg_color, arg_counts, fractal_args>>

(***************************************************************************)
(* The specifications.                                                     *)
(***************************************************************************)
Next ==
    \/ Update
    \/ SetGrid
    \/ Clear
    \/ Expand
    \/ SetMaxSize
    \/ PaintCell

\* the engine on small grids with chaos off: every operation on the grid
Spec == Init /\ [][Next]_vars

NextRaw == Next \/ SetGridRaw

\* Spec, with set_grid also handed patterns holding values above 4
SpecRaw == Init /\ [][NextRaw]_vars

NextChaos ==
    \/ Update
    \/ SetChaosMode
    \/ Clear

\* update under every chaos setting, on the smallest grids, loaded with
\* every pattern of the five cell states
SpecChaos == InitChaos /\ [][NextChaos]_vars

NextChaosRaw == NextChaos \/ SetChaosModeRaw

\* SpecChaos, with set_chaos_mode also handed numbers outside [0, 1]
SpecChaosRaw == InitChaos /\ [][NextChaosRaw]_vars

NextPatterns == Animate

\* blinkers and blocks on larger grids, chaos off
SpecPatterns == InitPatterns /\ [][NextPatterns]_vars

NextRules ==
    \/ ApplyOriginal
    \/ ApplyCustom

\* the rule functions on every current colour and every tally
SpecRules == InitRules /\ [][NextRules]_vars

NextDominant == ApplyDominant

\* get_dominant_color on every four counts of 0..8
SpecDominant == InitDominant /\ [][NextDominant]_vars

NextNeighbors == Update

\* update with chaos off on every grid of up to MaxNeighborCells cells
SpecNeighbors == InitNeighbors /\ [][NextNeighbors]_vars

NextOriginalPath == Animate

\* blinkers under chaos with both probabilities 0
SpecOriginalPath == InitOriginalPath /\ [][NextOriginalPath]_vars

NextFractal ==
    \/ GenerateMandelbrot
    \/ GenerateJulia

\* the two generators on grids of 1..2 cells a side
SpecFractal == InitFractal /\ [][NextFractal]_vars

NextStrip ==
    \/ SetGridStrip
    \/ Clear

\* set_grid and clear on one-row grids wider than the margin
SpecStrip == InitStrip /\ [][NextStrip]_vars

NextFrame == Animate

\* update under every chaos setting on grids with cells outside the rectangle
SpecFrame == InitFrame /\ [][NextFrame]_vars

NextEdge == Animate

\* update with chaos off from three cells in column 0 of a wide grid
SpecEdge == InitEdge /\ [][NextEdge]_vars

NextRefresh ==
    \/ Animate
    \/ UpdateActiveBounds

\* the refresh of the rectangle on grids with living cells at the edges
SpecRefresh == InitRefresh /\ [][NextRefresh]_vars

\* the first frame of GameOfLifeVisualizer.animate after a pattern was loaded
FirstFrame ==
    /\ generation = 0
    /\ UpdateBy(TRUE)

NextEquiv == FirstFrame

\* one update with chaos off from every grid with a Dead border
SpecEquiv == InitEquiv /\ [][NextEquiv]_vars

NextColors == Animate

\* update with no random outcome on grids of two colours
SpecColors == InitColors /\ [][NextColors]_vars

NextEmpty ==
    \/ FirstFrame
    \/ Clear

\* one update of the empty grid under every chaos setting
SpecEmpty == InitEmpty /\ [][NextEmpty]_vars

(***************************************************************************)
(* The claims.                                                             *)
(***************************************************************************)
\* every grid one update() can leave from the current state
UpdateOutcomes ==
    StepGrids(grid, width, height, active_bounds, chaos_mode,
              chaos_probability, rule_randomness)

\* the bounds update() scans from the current state
FreshBounds == update_active_bounds(grid, width, height, active_bounds)

\* the colour and the neighbour total of cell i of the scan of the current state
ScanColor(i) ==
    grid[NumpyIndex(ScanY(FreshBounds, i), height)][NumpyIndex(ScanX(FreshBounds, i), width)]
ScanCounts(i) ==
    get_neighbors_by_color(grid, width, height, ScanX(FreshBounds, i), ScanY(FreshBounds, i))
ScanCells == 0..(ScanCount(FreshBounds) - 1)

\* a living cell of the scanned rectangle has 5 or more non-Dead neighbours
OvercrowdedCell ==
    \E i \in ScanCells : ScanColor(i) > 0 /\ TotalOf(ScanCounts(i)) >= 5

(* C1, as stated: with chaos disabled two runs of step() from the same grid
   and bounds give the same grid whatever the random source returns, also
   when a living cell has 5 or more non-Dead neighbours: update() has one
   possible result. *)
C1_Deterministic == ~chaos_mode => Cardinality(UpdateOutcomes) = 1

(* C1, amended: with chaos disabled update() has one possible result
   provided no living cell of the scanned rectangle has 5 or more non-Dead
   neighbours. *)
C1_DeterministicUnlessOvercrowded ==
    (~chaos_mode /\ ~OvercrowdedCell) => Cardinality(UpdateOutcomes) = 1

C1_Witness ==
    /\ ~chaos_mode
    /\ ~OvercrowdedCell
    /\ \E i \in ScanCells : ScanColor(i) > 0
    /\ Cardinality(UpdateOutcomes) = 1

\* (x, y) centres a horizontal blinker whose row touches no edge of the grid
BlinkerPlace(x, y) ==
    /\ width >= 5 /\ height >= 5
    /\ x \in 2..(width - 3)
    /\ y \in 1..(height - 2)

(* C2, as stated: with chaos disabled, a horizontal row of 3 cells of one
   colour on an otherwise Dead grid of at least 5 x 5, the row touching no
   edge, is after one step the vertical column of 3 cells of that colour
   through the centre cell, and that column is after one more step the row
   again. *)
C2_Blinker ==
    [][\A x \in Cols(width), y \in Rows(height), c \in Colors :
          (BlinkerPlace(x, y) /\ ~chaos_mode) =>
              /\ grid = HBlinker(width, height, x, y, c)
                    => grid' = VBlinker(width, height, x, y, c)
              /\ grid = VBlinker(width, height, x, y, c)
                    => grid' = HBlinker(width, height, x, y, c)]_vars

\* the row and the column of three cells of colour c centred on (x, y)
Plus(w, h, x, y, c) ==
    [yy \in Rows(h) |-> [xx \in Cols(w) |->
        IF \/ (yy = y /\ xx \in (x - 1)..(x + 1))
           \/ (xx = x /\ yy \in (y - 1)..(y + 1))
        THEN c ELSE Dead]]

\* the 3 x 3 square of colour c centred on (x, y)
Square(w, h, x, y, c) ==
    [yy \in Rows(h) |-> [xx \in Cols(w) |->
        IF xx \in (x - 1)..(x + 1) /\ yy \in (y - 1)..(y + 1) THEN c ELSE Dead]]

(* C2, amended: with chaos disabled, such a row is after one step the plus
   of 5 cells of that colour, the row and the cells above and below its
   centre (the two end cells have one neighbour, of their own colour, and
   survive), and after 2 steps the full 3 x 3 square of that colour around
   the centre cell: the grid does not return to the row. *)
C2_BlinkerGrows ==
    [][\A x \in Cols(width), y \in Rows(height), c \in Colors :
          (BlinkerPlace(x, y) /\ ~chaos_mode) =>
              /\ grid = HBlinker(width, height, x, y, c)
                    => grid' = Plus(width, height, x, y, c)
              /\ grid = Plus(width, height, x, y, c)
                    => grid' = Square(width, height, x, y, c)]_vars

C2_Witness ==
    /\ generation = 2
    /\ ~chaos_mode
    /\ \E x \in Cols(width), y \in Rows(height), c \in Colors :
          BlinkerPlace(x, y) /\ grid = Square(width, height, x, y, c)

\* (x, y) is the top left cell of a block with no cell on the border
BlockPlace(x, y) ==
    /\ x \in 1..(width - 3)
    /\ y \in 1..(height - 3)

(* C3: with chaos disabled, a 2 x 2 block of one colour on an otherwise Dead
   grid, no block cell in a border row or column, is left as it is by every
   step. *)
C3_BlockStill ==
    [][\A x \in Cols(width), y \in Rows(height), c \in Colors :
          (BlockPlace(x, y) /\ ~chaos_mode /\ grid = Block(width, height, x, y, c))
              => grid' = grid]_vars

C3_Witness ==
    /\ generation >= 2
    /\ ~chaos_mode
    /\ \E x \in Cols(width), y \in Rows(height), c \in Colors :
          BlockPlace(x, y) /\ grid = Block(width, height, x, y, c)

\* the targets expand_grid_if_needed is asked for
Targets == 0..MaxTarget

\* what expand_grid_if_needed(tw, th) does from the current state
ExpandFrom(tw, th) ==
    expand_grid_if_needed(grid, width, height, max_width, max_height,
                          active_bounds, tw, th)

(* C4: whenever expand(targetW, targetH) resizes, the new width is
   min(max(width, targetW), maxWidth) and the new height likewise; every old
   cell (x, y) is found with its value at (x + offsetX, y + offsetY), the
   offsets being half the growth rounded down; every other cell of the new
   grid is Dead. *)
C4_ExpandCorrect ==
    \A tw \in Targets, th \in Targets :
        LET e == ExpandFrom(tw, th)
            newW == Min(Max(width, tw), max_width)
            newH == Min(Max(height, th), max_height)
            offsetX == (newW - width) \div 2
            offsetY == (newH - height) \div 2
        IN  e.ret = "True" =>
              /\ e.width = newW
              /\ e.height = newH
              /\ DOMAIN e.grid = Rows(newH)
              /\ \A y \in Rows(newH) : DOMAIN e.grid[y] = Cols(newW)
              /\ \A y \in Rows(height), x \in Cols(width) :
                    /\ y + offsetY \in Rows(newH)
                    /\ x + offsetX \in Cols(newW)
                    /\ e.grid[y + offsetY][x + offsetX] = grid[y][x]
              /\ \A y \in Rows(newH), x \in Cols(newW) :
                    ~(y - offsetY \in Rows(height) /\ x - offsetX \in Cols(width))
                        => e.grid[y][x] = Dead

\* a grid with a living cell that an expand moves by one column or more
C4_Witness ==
    \E tw \in Targets, th \in Targets :
        /\ ExpandFrom(tw, th).ret = "True"
        /\ (ExpandFrom(tw, th).width - width) \div 2 >= 1
        /\ AliveCells(grid, width, height) # {}

(* C5, as stated: in every state reachable from construction by step,
   setGrid, expand, setMaxSize, paintCell and clear, width <= maxWidth and
   height <= maxHeight. *)
C5_SizeWithinMax == width <= max_width /\ height <= max_height

\* every living cell of g lies in the rectangle b
Inside(g, w, h, b) ==
    \A c \in AliveCells(g, w, h) :
        /\ b[1] <= c[2] /\ c[2] < b[2]
        /\ b[3] <= c[1] /\ c[1] < b[4]

(* C6, as stated: in every reachable state every non-Dead cell lies in the
   stored active rectangle, also right after a cell was painted outside the
   rectangle and before the next step. *)
C6_AliveInsideBounds == Inside(grid, width, height, active_bounds)

(* C6, amended: update, set_grid and clear leave every non-Dead cell in the
   stored active rectangle, from every reachable state; expand and erasing a
   cell keep it so where it is so. Painting a colour leaves the rectangle as
   it was, so a cell painted outside it stays outside until the next update
   or set_grid. *)
C6_BoundsAfterRefresh ==
    /\ \A g \in UpdateOutcomes : Inside(g, width, height, FreshBounds)
    /\ \A pattern \in SmallPatterns :
          LET s == set_grid(pattern, active_bounds)
          IN  Inside(s.grid, s.width, s.height, s.active_bounds)
    /\ Inside(clear(width, height).grid, width, height,
              clear(width, height).active_bounds)
    /\ Inside(grid, width, height, active_bounds) =>
          /\ \A tw \in Targets, th \in Targets :
                LET e == ExpandFrom(tw, th)
                IN  Inside(e.grid, e.width, e.height, e.active_bounds)
          /\ \A cx \in PaintCoords, cy \in PaintCoords :
                LET p == paint_cell(grid, width, height, max_width, max_height,
                                    active_bounds, cx, cy, Dead)
                IN  Inside(p.grid, p.width, p.height, p.active_bounds)
    /\ \A cx \in PaintCoords, cy \in PaintCoords :
          LET p == paint_cell(grid, width, height, max_width, max_height,
                              active_bounds, cx, cy, Red)
          IN  p.ret # "True" => p.active_bounds = active_bounds

\* a cell painted outside the stored rectangle, which the next update takes in
C6_Witness ==
    /\ ~Inside(grid, width, height, active_bounds)
    /\ UpdateOutcomes # {}
    /\ \A g \in UpdateOutcomes : Inside(g, width, height, FreshBounds)

(* C7: clear() leaves every cell Dead, the width and the height as they
   were, and the active rectangle at [w/2 - 1, w/2 + 1) x [h/2 - 1, h/2 + 1),
   halves rounded down; a second clear() right after it changes nothing. *)
C7_ClearIdempotent ==
    [][Clear =>
          /\ width' = width
          /\ height' = height
          /\ DOMAIN grid' = Rows(height)
          /\ \A y \in Rows(height) :
                /\ DOMAIN grid'[y] = Cols(width)
                /\ \A x \in Cols(width) : grid'[y][x] = Dead
          /\ active_bounds' = <<(width \div 2) - 1, (width \div 2) + 1,
                                (height \div 2) - 1, (height \div 2) + 1>>
          /\ clear(width', height').grid = grid'
          /\ clear(width', height').active_bounds = active_bounds']_vars

\* a cleared grid wider than one cell: its rectangle is not the whole grid
C7_Witness ==
    /\ width >= 3
    /\ grid = Zeros(width, height)
    /\ active_bounds = <<(width \div 2) - 1, (width \div 2) + 1,
                         (height \div 2) - 1, (height \div 2) + 1>>
    /\ active_bounds # <<0, width, 0, height>>

(* C8, as stated: in every reachable state, set_grid having been handed any
   pattern, every cell of the grid holds a value in 0..4: a value of 5 or
   more is clamped or rejected and never stored. *)
C8_CellsInRange ==
    \A y \in Rows(height), x \in Cols(width) : grid[y][x] \in CellStates

(* C9: with chaos off every scanned cell gets what the custom rules give it;
   with chaos on the draw against rule_randomness is tested first and a hit
   gives the cell the random outcome alone, otherwise a hit of the draw
   against chaos_probability gives it the custom rules and a miss the
   original rules. So with chaos on and (chaos_probability,
   rule_randomness) = (0, 0) every cell follows the original rules, with
   (1, 0) the custom rules, and with rule_randomness = 1 the random outcome
   whatever chaos_probability is. *)
C9_DispatchOrder ==
    /\ \A u1 \in DrawValues, u2 \in DrawValues :
          LET rule == RuleChoice(chaos_mode, chaos_probability, rule_randomness, u1, u2)
          IN  /\ ~chaos_mode => rule = "custom"
              /\ (chaos_mode /\ u1 < rule_randomness) => rule = "random"
              /\ (chaos_mode /\ u1 >= rule_randomness /\ u2 < chaos_probability)
                    => rule = "custom"
              /\ (chaos_mode /\ u1 >= rule_randomness /\ u2 >= chaos_probability)
                    => rule = "original"
    /\ \A i \in ScanCells :
          LET cur == ScanColor(i)
              counts == ScanCounts(i)
              total == TotalOf(counts)
              dominant == get_dominant_color(counts)
              got == ScanCellResults(grid, width, height, FreshBounds, i, chaos_mode,
                                     chaos_probability, rule_randomness)
              custom == {apply_custom_color_rules(cur, counts, total, dominant, u) :
                            u \in DrawValues}
              original == {apply_original_conway_rules(cur, total, dominant)}
          IN  /\ ~chaos_mode => got = custom
              /\ (chaos_mode /\ rule_randomness = 0 /\ chaos_probability = 0)
                    => got = original
              /\ (chaos_mode /\ rule_randomness = 0 /\ chaos_probability = 100)
                    => got = custom
              /\ (chaos_mode /\ rule_randomness = 100)
                    => got = RandomOutcomeResults(cur)

\* both probabilities at 1 and a living cell with two neighbours to decide on
C9_Witness ==
    /\ chaos_mode
    /\ rule_randomness = 100
    /\ chaos_probability = 100
    /\ \E i \in ScanCells : ScanColor(i) > 0 /\ TotalOf(ScanCounts(i)) = 2

(* C10: the original rule returns cur for a living cell with 2 or 3
   neighbours and Dead for a living cell with any other total; for a Dead
   cell with 3 neighbours a colour of 1..4 that no colour outnumbers among
   the neighbours, and Dead for a Dead cell with any other total. Whether the
   result is Dead depends on whether cur is alive and on the total alone. *)
C10_OriginalTable ==
    rule_result.rule = "original" =>
        LET cur == arg_color
            total == TotalOf(arg_counts)
            v == rule_result.value
        IN  /\ (cur # Dead /\ total \in {2, 3}) => v = cur
            /\ (cur # Dead /\ total \notin {2, 3}) => v = Dead
            /\ (cur = Dead /\ total = 3) =>
                  /\ v \in Colors
                  /\ arg_counts[v] = MaxCountOf(arg_counts)
            /\ (cur = Dead /\ total # 3) => v = Dead
            /\ \A cur2 \in CellStates, counts2 \in Tallies :
                  ((cur2 > 0) = (cur > 0) /\ TotalOf(counts2) = total) =>
                      ((apply_original_conway_rules(
                            cur2, TotalOf(counts2), get_dominant_color(counts2)) = Dead)
                       = (v = Dead))

\* a living cell of a colour that 3 neighbours of other colours keep alive
C10_Witness ==
    /\ rule_result.rule = "original"
    /\ arg_color = Yellow
    /\ TotalOf(arg_counts) = 3
    /\ arg_counts[Yellow] = 0
    /\ rule_result.value = Yellow

\* what the custom rule gives a cell the overcrowding draw does not kill
CustomTable(cur, counts) ==
    LET total == TotalOf(counts)
        dominant == get_dominant_color(counts)
    IN  IF cur # Dead
        THEN IF total \in {2, 3} THEN cur
             ELSE IF total >= 4
                  THEN (IF MaxCountOf(counts) >= 3 THEN dominant ELSE Dead)
             ELSE IF total = 1
                  THEN (IF counts[cur] = 1 THEN cur ELSE Dead)
             ELSE Dead
        ELSE IF total = 3 THEN dominant ELSE Dead

(* C11: the custom rule gives a living cell with 5 or more neighbours Dead
   when its one draw falls below 0.6 and otherwise what the remaining
   branches give; a living cell with 2 or 3 neighbours keeps its colour; one
   with 4 or more takes the dominant colour if some colour has 3 or more
   neighbours and dies otherwise; one with 1 neighbour keeps its colour if
   that neighbour has it and dies otherwise; one with none dies; a Dead cell
   takes the dominant colour with exactly 3 neighbours and stays Dead
   otherwise. *)
C11_CustomTable ==
    LET cur == arg_color
        total == TotalOf(arg_counts)
        rest == CustomTable(cur, arg_counts)
    IN  /\ \A u \in DrawValues :
              apply_custom_color_rules(cur, arg_counts, total,
                                       get_dominant_color(arg_counts), u)
                  = IF cur # Dead /\ total >= 5 /\ u < OvercrowdChance
                    THEN Dead ELSE rest
        /\ rule_result.rule = "custom" =>
              rule_result.value \in
                  (IF cur # Dead /\ total >= 5 THEN {Dead, rest} ELSE {rest})

\* an overcrowded living cell the draw killed, which would else have taken
\* the dominant colour
C11_Witness ==
    /\ rule_result.rule = "custom"
    /\ arg_color # Dead
    /\ TotalOf(arg_counts) >= 5
    /\ CustomTable(arg_color, arg_counts) # Dead
    /\ rule_result.value = Dead

(* C12: for four counts of 0..8 each, the dominant colour is Red when every
   count is 0 and otherwise the lowest-numbered colour that holds the largest
   count; it is always one of 1..4, never Dead. *)
C12_DominantColor ==
    rule_result.rule = "dominant" =>
        LET v == rule_result.value IN
        /\ v \in Colors
        /\ v # Dead
        /\ (\A c \in Colors : arg_counts[c] = 0) => v = Red
        /\ (\E c \in Colors : arg_counts[c] > 0) =>
              /\ \A c \in Colors : arg_counts[c] <= arg_counts[v]
              /\ \A c \in Colors : c < v => arg_counts[c] < arg_counts[v]

\* colours 2 and 4 tie for the largest count, and 2 is returned
C12_Witness ==
    /\ rule_result.rule = "dominant"
    /\ arg_counts[2] = arg_counts[4]
    /\ arg_counts[1] < arg_counts[2]
    /\ arg_counts[3] < arg_counts[2]
    /\ rule_result.value = 2

\* the 8 offsets (dx, dy) other than (0, 0)
Moore == ({-1, 0, 1} \X {-1, 0, 1}) \ {<<0, 0>>}

\* the cell the offset o of (x, y) wraps to, as <<x, y>>, and its colour
WrapTo(x, y, o) == <<(x + o[1]) % width, (y + o[2]) % height>>
ColorAt(x, y, o) == grid[WrapTo(x, y, o)[2]][WrapTo(x, y, o)[1]]

\* the offsets of (x, y) that wrap to (x, y) itself
SelfOffsets(x, y) == {o \in Moore : WrapTo(x, y, o) = <<x, y>>}

\* counts[c] is the number of offsets whose wrapped cell has colour c, and
\* total is the sum of the buckets, the number of offsets whose cell is not
\* Dead, and within 0..8
CountsPerOffset(x, y) ==
    LET counts == get_neighbors_by_color(grid, width, height, x, y)
        total == TotalOf(counts)
    IN  /\ \A c \in Colors :
              counts[c] = Cardinality({o \in Moore : ColorAt(x, y, o) = c})
        /\ total = Cardinality({o \in Moore : ColorAt(x, y, o) # Dead})
        /\ 0 <= total /\ total <= 8

(* C13, as stated: for every cell (x, y) of every grid, counts[c] is the
   number of the 8 offsets whose wrapped cell has colour c, total is the sum
   of the buckets and the number of non-Dead neighbours, within 0..8, and the
   cell (x, y) itself never contributes to total. *)
C13_NeighborCounts ==
    \A x \in Cols(width), y \in Rows(height) :
        /\ CountsPerOffset(x, y)
        /\ TotalOf(get_neighbors_by_color(grid, width, height, x, y))
              = Cardinality({o \in Moore : /\ WrapTo(x, y, o) # <<x, y>>
                                           /\ ColorAt(x, y, o) # Dead})

(* C13, amended: the counts and the total are taken per offset, so a cell
   that two offsets wrap to counts twice. In a grid with width and height of
   2 or more no offset wraps to (x, y) and the cell never contributes; in a
   grid of width 1 or of height 1 two offsets wrap to (x, y), in the 1 x 1
   grid all 8, and a non-Dead cell adds that many to its own total. *)
C13_NeighborCountsWrapped ==
    \A x \in Cols(width), y \in Rows(height) :
        LET self == Cardinality(SelfOffsets(x, y)) IN
        /\ CountsPerOffset(x, y)
        /\ self = IF width = 1 /\ height = 1 THEN 8
                  ELSE IF width = 1 \/ height = 1 THEN 2 ELSE 0
        /\ TotalOf(get_neighbors_by_color(grid, width, height, x, y))
              = Cardinality({o \in Moore : /\ WrapTo(x, y, o) # <<x, y>>
                                           /\ ColorAt(x, y, o) # Dead})
                + (IF grid[y][x] # Dead THEN self ELSE 0)

\* the 2 x 2 grid with no Dead cell: every cell has a total of 8, none its own
C13_Witness ==
    /\ width = 2
    /\ height = 2
    /\ \A x \in Cols(width), y \in Rows(height) :
          /\ grid[y][x] # Dead
          /\ TotalOf(get_neighbors_by_color(grid, width, height, x, y)) = 8
          /\ SelfOffsets(x, y) = {}

(* C14, as stated: from every reachable state, also after set_max_size set
   maxima below the current size or set_grid loaded a grid larger than the
   maxima, expand(targetW, targetH) completes without error for every
   non-negative target and leaves a width and a height no smaller than they
   were. *)
C14_ExpandNeverFails ==
    \A tw \in Targets, th \in Targets :
        LET e == ExpandFrom(tw, th)
        IN  /\ e.ret # "raise"
            /\ e.width >= width
            /\ e.height >= height

(* C15, as stated: expand(targetW, targetH) returns true if and only if the
   clamped size differs from (width, height), and when it returns false the
   grid, the width, the height and the active bounds are as they were. *)
C15_ExpandNoOp ==
    \A tw \in Targets, th \in Targets :
        LET e == ExpandFrom(tw, th)
            newW == Min(Max(width, tw), max_width)
            newH == Min(Max(height, th), max_height)
        IN  /\ (e.ret = "True") <=> (newW # width \/ newH # height)
            /\ e.ret = "False" =>
                  /\ e.grid = grid
                  /\ e.width = width
                  /\ e.height = height
                  /\ e.active_bounds = active_bounds

\* C15 for the calls that return: the call returns true exactly when the
\* clamped size differs, and false leaves the fields as they were
ExpandNoOpWhenReturning ==
    \A tw \in Targets, th \in Targets :
        LET e == ExpandFrom(tw, th)
            newW == Min(Max(width, tw), max_width)
            newH == Min(Max(height, th), max_height)
        IN  e.ret # "raise" =>
              /\ (e.ret = "True") <=> (newW # width \/ newH # height)
              /\ e.ret = "False" =>
                    /\ e.grid = grid
                    /\ e.width = width
                    /\ e.height = height
                    /\ e.active_bounds = active_bounds

\* the height and the width of a pattern
PatternHeight(pattern) == Cardinality(DOMAIN pattern)
PatternWidth(pattern) == Cardinality(DOMAIN pattern[0])

\* the columns and the rows of a pattern that hold a non-Dead cell
AliveColumns(pattern) ==
    {x \in DOMAIN pattern[0] : \E y \in DOMAIN pattern : pattern[y][x] # Dead}
AliveRows(pattern) ==
    {y \in DOMAIN pattern : \E x \in DOMAIN pattern[0] : pattern[y][x] # Dead}

\* the rectangle a refresh computes for a pattern: the tight box of the
\* non-Dead cells widened by 5 and clamped to the grid, or the centred box
RefreshedBounds(pattern) ==
    LET w == PatternWidth(pattern)
        h == PatternHeight(pattern)
    IN  IF AliveColumns(pattern) = {}
        THEN <<(w \div 2) - 1, (w \div 2) + 1, (h \div 2) - 1, (h \div 2) + 1>>
        ELSE <<Max(0, SetMin(AliveColumns(pattern)) - 5),
               Min(w, SetMax(AliveColumns(pattern)) + 5 + 1),
               Max(0, SetMin(AliveRows(pattern)) - 5),
               Min(h, SetMax(AliveRows(pattern)) + 5 + 1)>>

(* C16: set_grid(pattern), the pattern h high and w wide with cells in 0..4,
   leaves the grid equal to the pattern cell for cell, height = h, width = w
   and the active bounds a refresh computes for the pattern, whatever the
   grid, the dimensions and the bounds were before. *)
C16_SetGrid ==
    \A pattern \in StripPatterns :
        LET s == set_grid(pattern, active_bounds) IN
        /\ s.grid = pattern
        /\ s.height = PatternHeight(pattern)
        /\ s.width = PatternWidth(pattern)
        /\ s.active_bounds = RefreshedBounds(pattern)

\* a loaded row of 7 cells with the one living cell at its left end: the
\* rectangle ends before the last cell
C16_Witness ==
    /\ width = 7
    /\ height = 1
    /\ AliveColumns(grid) = {0}
    /\ active_bounds = <<0, 6, 0, 1>>
    /\ set_grid(grid, <<0, 0, 0, 0>>).active_bounds = active_bounds

(* C17, as stated: set_chaos_mode handed a probability outside [0, 1] fails
   and keeps the stored values, so in every reachable state both stored
   probabilities lie in [0, 1] (0..100 hundredths). *)
C17_ProbabilitiesInRange ==
    /\ chaos_probability >= 0 /\ chaos_probability <= 100
    /\ rule_randomness >= 0 /\ rule_randomness <= 100

\* chaos on with both probabilities 0: update picks the original rules
OriginalPath == chaos_mode /\ chaos_probability = 0 /\ rule_randomness = 0

(* C18: with chaos on and both probabilities 0, a horizontal row of 3 cells
   of one colour c on an otherwise Dead grid of at least 5 x 5, the row
   touching no edge, is after one step the vertical column of 3 cells of
   colour c through the centre cell, and after one more step the row again,
   colours included. *)
C18_OriginalBlinker ==
    [][\A x \in Cols(width), y \in Rows(height), c \in Colors :
          (BlinkerPlace(x, y) /\ OriginalPath) =>
              /\ grid = HBlinker(width, height, x, y, c)
                    => grid' = VBlinker(width, height, x, y, c)
              /\ grid = VBlinker(width, height, x, y, c)
                    => grid' = HBlinker(width, height, x, y, c)]_vars

\* a Yellow row back after two generations
C18_Witness ==
    /\ generation = 2
    /\ OriginalPath
    /\ \E x \in Cols(width), y \in Rows(height) :
          BlinkerPlace(x, y) /\ grid = HBlinker(width, height, x, y, Yellow)

RECURSIVE Orbit(_, _, _)
\* the j-th iterate of z -> z*z + c from z0
Orbit(z0, c, j) == IF j = 0 THEN z0 ELSE SquarePlus(Orbit(z0, c, j - 1), c)

\* n is the escape iteration count: no iterate before the n-th lies outside
\* the disc of radius 2, and the n-th does unless n is maxIter
EscapeCount(z0, c, n, maxIter) ==
    /\ \A j \in 0..(n - 1) : ~AbsAbove2(Orbit(z0, c, j))
    /\ (n = maxIter \/ AbsAbove2(Orbit(z0, c, n)))

\* the start and the constant of the iteration for the pixel (x, y)
OrbitStart(rule, x, y, a) ==
    IF rule = "mandelbrot" THEN <<0, 0, 1>> ELSE PixelPoint(x, y, a)
OrbitConstant(rule, x, y, a) ==
    IF rule = "mandelbrot" THEN PixelPoint(x, y, a) ELSE <<a.c[1], a.c[2], 1>>

(* C19: a call of the Mandelbrot or of the Julia generator leaves the engine
   as it was and returns the grid a second call with the same arguments
   returns; the grid has h rows and w columns, every cell is 0 or 1, and a
   cell is 1 exactly when its escape iteration count n, 0 <= n <= maxIter,
   is below the threshold. *)
C19_FractalSeeds ==
    [][rule_result'.rule \in {"mandelbrot", "julia"} =>
          LET a == fractal_args
              rule == rule_result'.rule
              g == rule_result'.value
          IN  /\ engine_vars' = engine_vars
              /\ g = IF rule = "mandelbrot" THEN generate_mandelbrot_grid(a)
                     ELSE generate_julia_set(a)
              /\ DOMAIN g = Rows(a.height)
              /\ \A y \in Rows(a.height) :
                    /\ DOMAIN g[y] = Cols(a.width)
                    /\ \A x \in Cols(a.width) :
                          /\ g[y][x] \in {0, 1}
                          /\ \E n \in 0..a.max_iter :
                                /\ EscapeCount(OrbitStart(rule, x, y, a),
                                               OrbitConstant(rule, x, y, a),
                                               n, a.max_iter)
                                /\ (g[y][x] = 1) <=> (n < a.threshold)]_vars

\* a Mandelbrot grid of 2 x 2 with a cell that escaped before the threshold
\* and one that did not
C19_Witness ==
    /\ rule_result.rule = "mandelbrot"
    /\ fractal_args.width = 2
    /\ fractal_args.height = 2
    /\ fractal_args.threshold < fractal_args.max_iter
    /\ \E x \in Cols(2), y \in Rows(2) : rule_result.value[y][x] = 1
    /\ \E x \in Cols(2), y \in Rows(2) : rule_result.value[y][x] = 0

\* the cell (x, y) lies in the rectangle b
InRectangle(x, y, b) == b[1] <= x /\ x < b[2] /\ b[3] <= y /\ y < b[4]

\* the cells of the grid outside the rectangle update() computes first
OutsideCells ==
    {c \in Rows(height) \X Cols(width) : ~InRectangle(c[2], c[1], FreshBounds)}

(* C20: under every chaos configuration step() changes only cells inside
   the active rectangle computed at the start of that step; every cell
   outside the rectangle is Dead before the step and Dead after it, and
   step() leaves width, height, the maxima and the chaos configuration as
   they were. A step of update() is a step that counts a generation. *)
C20_StepFrame ==
    [][generation' = generation + 1 =>
          /\ DOMAIN grid' = Rows(height)
          /\ \A y \in Rows(height) : DOMAIN grid'[y] = Cols(width)
          /\ \A c \in OutsideCells :
                grid[c[1]][c[2]] = Dead /\ grid'[c[1]][c[2]] = Dead
          /\ \A c \in Rows(height) \X Cols(width) :
                grid'[c[1]][c[2]] # grid[c[1]][c[2]]
                    => InRectangle(c[2], c[1], FreshBounds)
          /\ active_bounds' = FreshBounds
          /\ <<width', height', max_width', max_height'>>
                = <<width, height, max_width, max_height>>
          /\ <<chaos_mode', chaos_probability', rule_randomness'>>
                = <<chaos_mode, chaos_probability, rule_randomness>>]_vars

\* after one step of a row with one living cell at its left end: a cell was
\* born inside the rectangle, and the cell at the right end, outside the
\* rectangle and a neighbour of the living cell round the edge, is Dead
C20_Witness ==
    /\ generation = 1
    /\ height = 1
    /\ width \in FrameWidths
    /\ active_bounds = <<0, bounds_margin + 1, 0, 1>>
    /\ grid[0][1] > 0
    /\ grid[0][width - 1] = Dead

\* every grid a scan of the whole grid would leave from the current state
FullScanOutcomes ==
    FullScanGrids(grid, width, height, chaos_mode, chaos_probability, rule_randomness)

\* the grid is a column of three cells of colour c in column 0, centred on row y
EdgeColumn(y, c) ==
    /\ width > bounds_margin + 2
    /\ height >= 3
    /\ y \in 1..(height - 2)
    /\ grid = VBlinker(width, height, 0, y, c)

(* C21: with chaos off and three vertically adjacent cells of one colour in
   column 0 of a grid wider than 7, the Dead cell of the last column next to
   the middle one has exactly 3 non-Dead toroidal neighbours and lies outside
   the active rectangle; step() leaves it Dead, and a scan of the whole grid
   with the same rules would make it alive, so step() differs from the
   full-grid toroidal update. *)
C21_EdgeCellLeftDead ==
    \A y \in Rows(height), c \in Colors :
        (~chaos_mode /\ EdgeColumn(y, c)) =>
            /\ grid[y][width - 1] = Dead
            /\ TotalOf(get_neighbors_by_color(grid, width, height, width - 1, y)) = 3
            /\ ~InRectangle(width - 1, y, FreshBounds)
            /\ UpdateOutcomes # {}
            /\ \A g \in UpdateOutcomes : g[y][width - 1] = Dead
            /\ \A g \in FullScanOutcomes : g[y][width - 1] = c
            /\ UpdateOutcomes \cap FullScanOutcomes = {}

\* after the step from such a column: the cell right of the middle one was
\* born, the cell left of it round the edge was not
C21_Witness ==
    /\ generation = 1
    /\ ~chaos_mode
    /\ width > bounds_margin + 2
    /\ active_bounds[2] = bounds_margin + 1
    /\ \E y \in 1..(height - 2) :
          /\ grid[y - 1][0] > 0 /\ grid[y][0] > 0 /\ grid[y + 1][0] > 0
          /\ grid[y][1] > 0
          /\ grid[y][width - 1] = Dead

\* rectangles self.active_bounds can hold when update_active_bounds is called
StoredBounds ==
    {active_bounds, <<0, width, 0, height>>, CenterBounds(width, height), <<0, 0, 0, 0>>}

(* C22: for a grid with a non-Dead cell, whose tight bounding box is columns
   minx..maxx and rows miny..maxy, the refresh sets the rectangle to
   [max(0, minx-5), min(width, maxx+6)) x [max(0, miny-5), min(height, maxy+6));
   for an all-Dead grid it sets the 2x2 box [w//2-1, w//2+1) x [h//2-1, h//2+1);
   the result does not depend on the rectangle stored before the call. *)
C22_RefreshResult ==
    /\ PatternWidth(grid) = width
    /\ PatternHeight(grid) = height
    /\ \A old \in StoredBounds :
          update_active_bounds(grid, width, height, old) = RefreshedBounds(grid)

\* after a step of the largest grid with a living cell in each top corner:
\* both survive, and the refresh that opened the step clamped the columns
\* to the grid and ended the rows 5 below the cells
C22_Witness ==
    /\ generation = 1
    /\ width = MaxRefreshDim
    /\ height = MaxRefreshDim
    /\ AliveColumns(grid) = {0, width - 1}
    /\ AliveRows(grid) = {0}
    /\ active_bounds = <<0, width, 0, 6>>

(* C23, as stated: in every state reachable by step, setGrid, expand, clear
   and paintCell on a grid of width and height 1 or more, the active
   rectangle satisfies 0 <= minX < maxX <= width and 0 <= minY < maxY <=
   height, the all-Dead grids of width or height 1 included. *)
C23_BoundsInsideGrid ==
    /\ 0 <= active_bounds[1]
    /\ active_bounds[1] < active_bounds[2]
    /\ active_bounds[2] <= width
    /\ 0 <= active_bounds[3]
    /\ active_bounds[3] < active_bounds[4]
    /\ active_bounds[4] <= height

(* C24: when expand returns true the new active rectangle is the old one
   translated by (offsetX, offsetY) = ((newW-oldW)//2, (newH-oldH)//2), with
   no rescan; if every non-Dead cell lay inside the rectangle before the
   call, every non-Dead cell of the expanded grid lies inside the translated
   rectangle. *)
C24_ExpandShiftsBounds ==
    \A tw \in Targets, th \in Targets :
        LET e == ExpandFrom(tw, th)
            offsetX == (e.width - width) \div 2
            offsetY == (e.height - height) \div 2
        IN  e.ret = "True" =>
              /\ e.active_bounds[1] = active_bounds[1] + offsetX
              /\ e.active_bounds[2] = active_bounds[2] + offsetX
              /\ e.active_bounds[3] = active_bounds[3] + offsetY
              /\ e.active_bounds[4] = active_bounds[4] + offsetY
              /\ Inside(grid, width, height, active_bounds)
                    => Inside(e.grid, e.width, e.height, e.active_bounds)

\* a living cell inside the rectangle and an expand that moves both by a
\* column or more, to a rectangle a rescan would not give
C24_Witness ==
    /\ AliveCells(grid, width, height) # {}
    /\ Inside(grid, width, height, active_bounds)
    /\ \E tw \in Targets, th \in Targets :
          LET e == ExpandFrom(tw, th) IN
          /\ e.ret = "True"
          /\ e.active_bounds[1] > active_bounds[1]
          /\ e.active_bounds # update_active_bounds(e.grid, e.width, e.height,
                                                    e.active_bounds)

(* C25: when the random-outcome rule is applied to a cell, an alive cell of
   colour cur can become Dead, cur or any colour in 1..4, each of them and
   nothing else, and a Dead cell can become Dead or any colour in 1..4; the
   outcome does not depend on the cell's neighbours. *)
C25_RandomOutcomes ==
    /\ \A cur \in Colors : RandomOutcomeResults(cur) = {Dead, cur} \cup (1..4)
    /\ RandomOutcomeResults(Dead) = {Dead} \cup (1..4)
    /\ \A i \in ScanCells :
          LET got == ScanCellResults(grid, width, height, FreshBounds, i, chaos_mode,
                                     chaos_probability, rule_randomness)
          IN  /\ (chaos_mode /\ rule_randomness = 100) => got = 0..4
              /\ (chaos_mode /\ rule_randomness > 0) => 0..4 \subseteq got

\* every draw picks the random outcome, for a living cell and for a Dead
\* cell with another number of neighbours
C25_Witness ==
    /\ chaos_mode
    /\ rule_randomness = 100
    /\ active_bounds = FreshBounds
    /\ \E i \in ScanCells, j \in ScanCells :
          /\ ScanColor(i) > 0
          /\ ScanColor(j) = Dead
          /\ TotalOf(ScanCounts(i)) # TotalOf(ScanCounts(j))

\* the cell (x, y) of the grid is one the scan of the rectangle b writes
Scanned(b, x, y) ==
    \E i \in 0..(ScanCount(b) - 1) :
        /\ NumpyIndex(ScanX(b, i), width) = x
        /\ NumpyIndex(ScanY(b, i), height) = y

\* what the rules can give the cell (x, y) from the grid of the current
\* state alone
FromPrevious(x, y) ==
    UpdateCellResults(grid[y][x], get_neighbors_by_color(grid, width, height, x, y),
                      chaos_mode, chaos_probability, rule_randomness)

(* C26: in step() the next value of every scanned cell is computed from the
   grid as it was at the start of the step, never from a cell rewritten in
   the same step; the grid is replaced once, after the whole rectangle was
   scanned, so the engine's grid after the step holds for every scanned cell
   a value the rules give from the previous generation and every other cell
   as it was. A step is a step that counts a generation. *)
C26_Synchronous ==
    [][generation' = generation + 1 =>
          LET b == FreshBounds IN
          \A y \in Rows(height), x \in Cols(width) :
              IF Scanned(b, x, y) THEN grid'[y][x] \in FromPrevious(x, y)
              ELSE grid'[y][x] = grid[y][x]]_vars

\* one step after a row of three: the cells above and below the centre
\* were born from the row, and the ends, read before any cell was rewritten,
\* each kept their one neighbour
C26_Witness ==
    /\ generation = 1
    /\ ~chaos_mode
    /\ \E x \in Cols(width), y \in Rows(height), c \in Colors :
          BlinkerPlace(x, y) /\ grid = Plus(width, height, x, y, c)

(* C27: whatever paintCell, eraseCell, expand, setGrid, clear and step calls
   came before, the rectangle step() scans contains every cell that is
   non-Dead at the start of the step; a cell painted outside the stored
   rectangle is evaluated by the next step. *)
C27_FreshAtScan ==
    LET b == FreshBounds IN
    \A c \in AliveCells(grid, width, height) :
        /\ InRectangle(c[2], c[1], b)
        /\ Scanned(b, c[2], c[1])

\* a living cell outside the stored rectangle that the next step scans
C27_Witness ==
    \E c \in AliveCells(grid, width, height) :
        /\ ~InRectangle(c[2], c[1], active_bounds)
        /\ Scanned(FreshBounds, c[2], c[1])

\* no non-Dead cell lies in a border row or column
BorderDead ==
    \A c \in AliveCells(grid, width, height) :
        /\ c[1] \in 1..(height - 2)
        /\ c[2] \in 1..(width - 2)

\* an alive cell has 5 or more non-Dead neighbours
Overcrowded ==
    \E c \in AliveCells(grid, width, height) :
        TotalOf(get_neighbors_by_color(grid, width, height, c[2], c[1])) >= 5

(* C28: with chaos disabled, for every grid of width and height 3 or more
   with cells in 0..4, no non-Dead cell in a border row or column and no
   alive cell with 5 or more non-Dead neighbours, the grid step() of wow.py
   leaves equals cell for cell the grid the full-grid update of scrips3.py
   leaves from the same grid. *)
C28_MatchesFullScan ==
    (/\ ~chaos_mode
     /\ width >= 3 /\ height >= 3
     /\ BorderDead
     /\ ~Overcrowded)
        => UpdateOutcomes = {scrips3_update(grid, width, height)}

\* after a step: a grid with living cells and a Dead border, longer than
\* the rectangle the next step scans, on which the two updates agree
C28_Witness ==
    /\ generation = 1
    /\ ~chaos_mode
    /\ AliveCells(grid, width, height) # {}
    /\ BorderDead
    /\ ~Overcrowded
    /\ FreshBounds # <<0, width, 0, height>>
    /\ UpdateOutcomes = {scrips3_update(grid, width, height)}

\* the non-Dead colours present in the grid g
ColorsIn(g) == {g[y][x] : y \in DOMAIN g, x \in DOMAIN g[0]} \ {Dead}

(* C29: with chaos disabled, or enabled with a random-outcome probability of
   0, the non-Dead colours present in the grid after step() are among those
   present before it; a grid holding only the colour c stays within
   {Dead, c} after any number of steps. A step is a step that counts a
   generation. *)
C29_ColorsConserved ==
    [][(generation' = generation + 1 /\ (~chaos_mode \/ rule_randomness = 0))
          => ColorsIn(grid') \subseteq ColorsIn(grid)]_vars

\* two steps under chaos with the rule sets mixed, the grid still holding
\* living cells of one colour only
C29_Witness ==
    /\ generation = 2
    /\ chaos_mode
    /\ chaos_probability = 50
    /\ rule_randomness = 0
    /\ ColorsIn(grid) = {Yellow}
    /\ Cardinality(AliveCells(grid, width, height)) > MaxLiving

\* the cell (x, y) lies in the centred box [w//2-1, w//2+1) x [h//2-1, h//2+1)
InCentredBox(x, y) ==
    /\ (width \div 2) - 1 <= x /\ x < (width \div 2) + 1
    /\ (height \div 2) - 1 <= y /\ y < (height \div 2) + 1

(* C30: with chaos disabled, or enabled with a random-outcome probability of
   0, an all-Dead grid is a fixed point of step() whatever its size; with
   chaos enabled and a random-outcome probability above 0 a step from an
   all-Dead grid creates non-Dead cells only inside the centred 2x2 box
   [w//2-1, w//2+1) x [h//2-1, h//2+1), every other cell staying Dead. A
   step is a step that counts a generation. *)
C30_EmptyGrid ==
    [][(generation' = generation + 1 /\ grid = Zeros(width, height)) =>
          /\ (~chaos_mode \/ rule_randomness = 0) => grid' = grid
          /\ \A y \in Rows(height), x \in Cols(width) :
                ~InCentredBox(x, y) => grid'[y][x] = Dead]_vars

\* one step of the largest empty grid under chaos: the four cells of the
\* centred box were born in four colours, every other cell is Dead
C30_Witness ==
    /\ generation = 1
    /\ chaos_mode
    /\ rule_randomness > 0
    /\ width = MaxEmptyDim
    /\ height = MaxEmptyDim
    /\ Cardinality(AliveCells(grid, width, height)) = 4
    /\ ColorsIn(grid) = Colors
    /\ \A c \in AliveCells(grid, width, height) : InCentredBox(c[2], c[1])

====
